---- MODULE Spec2Model ----
(***************************************************************************)
(* Model of the numeric core of chart-core: LTTB downsampling and OHLC     *)
(* bucket aggregation (downsample.rs), the fallible Candle constructor     *)
(* (series.rs), TimeScale and ValueScale (scale.rs), and ViewState with    *)
(* visible_y_range (view.rs).                                              *)
(*                                                                         *)
(* f32/f64 values are modelled as exact rationals <<num, den>> in lowest   *)
(* terms with den > 0, with <<1, 0>>, <<-1, 0>> and <<0, 0>> standing for  *)
(* +inf, -inf and NaN; floating-point rounding is outside the model.       *)
(* usize/i32 values are modelled as integers far below their width.  A     *)
(* Rust panic is modelled by the flag `panicked`.                          *)
(***************************************************************************)
EXTENDS Integers, Sequences, FiniteSets, TLC

VARIABLES
    pc,         \* position of the driver: which entry point is called next
    points,     \* lttb: input slice, sequence of <<x, y>>
    threshold,  \* lttb: requested number of points
    sampled,    \* lttb: returned vector
    data,       \* aggregate_ohlc_buckets: input candles
    bucket,     \* aggregate_ohlc_buckets: bucket width
    out,        \* aggregate_ohlc_buckets: returned vector
    cargs,      \* Candle::try_new: the arguments [t, o, h, l, c]
    cres,       \* Candle::try_new: the Result
    ts,         \* the TimeScale
    ts_call,    \* the last TimeScale call, with the state before it
    view,       \* the ViewState
    view_call,  \* the last ViewState call, with the state before it
    chart,      \* the series of the Chart the view was derived from
    vs,         \* the ValueScale
    vs_call,    \* the last ValueScale call, with the state before it
    ds,         \* Series::downsample_xy_lttb: the series, max_points, the result
    ticks,      \* nice_ticks: the arguments and the returned vector
    axes_chart, \* Chart::autoscale_axes: the chart (series, x_axis, y_axis)
    axes_call,  \* the last autoscale_axes call, with the chart before it
    panicked    \* TRUE once a call has panicked

vars == <<pc, points, threshold, sampled, data, bucket, out, cargs, cres,
          ts, ts_call, view, view_call, chart, vs, vs_call, ds, ticks,
          axes_chart, axes_call, panicked>>

lttbVars == <<points, threshold, sampled>>
aggVars == <<data, bucket, out>>
candleVars == <<cargs, cres>>
tsVars == <<ts, ts_call>>
viewVars == <<view, view_call, chart>>
vsVars == <<vs, vs_call>>
dsVars == <<ds>>
ticksVars == <<ticks>>
axesVars == <<axes_chart, axes_call>>

-----------------------------------------------------------------------------
(* Bounds of the model.                                                    *)

MaxPoints == 5
MaxThreshold == 6
MaxCandles == 4
MaxBucket == 3
MaxPrice == 2
MaxTsCalls == 3
MaxViewCalls == 2
MaxVsCalls == 2

-----------------------------------------------------------------------------
(* Exact arithmetic standing for f32/f64.                                  *)

Abs(a) == IF a < 0 THEN -a ELSE a

RECURSIVE GCD(_, _)
GCD(a, b) == IF b = 0 THEN a ELSE GCD(b, a % b)

Sgn(a) == IF a < 0 THEN -1 ELSE IF a > 0 THEN 1 ELSE 0

\* n/d in lowest terms with a positive denominator.  A zero denominator gives
\* the IEEE result of the division: <<1, 0>> is +inf, <<-1, 0>> is -inf and
\* <<0, 0>> is NaN (zero carries no sign in the model).
Q(n, d) ==
    IF d = 0 THEN <<Sgn(n), 0>>
    ELSE LET s == IF d < 0 THEN -1 ELSE 1
             g == GCD(Abs(n), Abs(d))
         IN  <<(s * n) \div g, (s * d) \div g>>

NaN == <<0, 0>>
is_nan(a) == a = NaN
\* f64::INFINITY and f64::NEG_INFINITY
Infinity == <<1, 0>>
NegInfinity == <<-1, 0>>

I2Q(i) == <<i, 1>>
\* the operands are in lowest terms; common factors are cancelled before
\* multiplying so that intermediate products stay small
QAdd(a, b) ==
    IF a[2] = 0 \/ b[2] = 0
    THEN IF is_nan(a) \/ is_nan(b) THEN NaN
         ELSE IF a[2] = 0 /\ b[2] = 0 THEN (IF a = b THEN a ELSE NaN)
         ELSE IF a[2] = 0 THEN a ELSE b
    ELSE LET g == GCD(a[2], b[2])
         IN  Q(a[1] * (b[2] \div g) + b[1] * (a[2] \div g), (a[2] \div g) * b[2])
QNeg(a) == <<-a[1], a[2]>>
QSub(a, b) == QAdd(a, QNeg(b))
QMul(a, b) ==
    IF a[2] = 0 \/ b[2] = 0
    THEN IF is_nan(a) \/ is_nan(b) THEN NaN ELSE <<Sgn(a[1]) * Sgn(b[1]), 0>>
    ELSE LET g1 == GCD(Abs(a[1]), b[2])
             g2 == GCD(Abs(b[1]), a[2])
         IN  Q((a[1] \div g1) * (b[1] \div g2), (a[2] \div g2) * (b[2] \div g1))
QDiv(a, b) == QMul(a, Q(b[2], b[1]))
QAbs(a) == <<Abs(a[1]), a[2]>>
\* a < b; every comparison with NaN is false
QLt(a, b) ==
    IF is_nan(a) \/ is_nan(b) THEN FALSE
    ELSE IF a[2] = 0 /\ b[2] = 0 THEN a[1] < b[1]
    ELSE IF a[2] = 0 THEN a[1] < 0
    ELSE IF b[2] = 0 THEN b[1] > 0
    ELSE LET g == GCD(a[2], b[2])
         IN  a[1] * (b[2] \div g) < b[1] * (a[2] \div g)
QLe(a, b) == ~is_nan(a) /\ ~is_nan(b) /\ ~QLt(b, a)
\* f64::min / f64::max return the other operand when one is NaN
QMin(a, b) ==
    IF is_nan(a) THEN b ELSE IF is_nan(b) THEN a ELSE IF QLt(b, a) THEN b ELSE a
QMax(a, b) ==
    IF is_nan(a) THEN b ELSE IF is_nan(b) THEN a ELSE IF QLt(a, b) THEN b ELSE a
\* f64::clamp / f32::clamp for lo <= hi
QClamp(x, lo, hi) == IF QLt(x, lo) THEN lo ELSE IF QLt(hi, x) THEN hi ELSE x

\* a < 1 / n for a >= 0 and n > 0, computed without the product a[1] * n
QLtInv(a, n) == a[2] # 0 /\ (a[1] = 0 \/ (a[2] - 1) \div a[1] >= n)

IMin(a, b) == IF b < a THEN b ELSE a
IMax(a, b) == IF a < b THEN b ELSE a

-----------------------------------------------------------------------------
(* downsample.rs: lttb                                                     *)

\* points[k] for the 0-based index k of the source
At(s, k) == s[k + 1]

\* (1.0 + (i as f64) * bucket_size).floor() as usize,
\* with bucket_size = (n - 2) / (threshold - 2)
BucketEdge(i, n, t) == 1 + ((i * (n - 2)) \div (t - 2))

\* faulty variant of BucketStart: the bucket opens one index early
BucketStartEarly(i, n, t) == BucketEdge(i, n, t) - 1

BucketStart(i, n, t) == BucketEdge(i, n, t)
BucketEnd(i, n, t) == IMin(BucketEdge(i + 1, n, t), n - 1)
\* faulty variant of NextEnd: the bound n - 1 is not applied
NextEndUnclamped(i, n, t) == BucketEdge(i + 2, n, t)

NextEnd(i, n, t) == IMin(BucketEdge(i + 2, n, t), n - 1)

\* the range rs..re of the next bucket's average
AvgLo(i, n, t) == IMax(BucketEnd(i, n, t), 1)
AvgHi(i, n, t) == IMax(NextEnd(i, n, t), AvgLo(i, n, t) + 1)

RECURSIVE SumRange(_, _, _, _)
\* sum of component c of pts[k] for k in lo..hi-1
SumRange(pts, c, lo, hi) ==
    IF lo >= hi THEN 0 ELSE At(pts, lo)[c] + SumRange(pts, c, lo + 1, hi)

\* <<avg_x, avg_y>> of the next bucket
AvgPoint(pts, i, n, t) ==
    LET rs == AvgLo(i, n, t)
        re == AvgHi(i, n, t)
        cnt == re - rs
    IN  IF cnt = 0
        THEN <<I2Q(At(pts, BucketEnd(i, n, t))[1]), I2Q(At(pts, BucketEnd(i, n, t))[2])>>
        ELSE <<Q(SumRange(pts, 1, rs, re), cnt), Q(SumRange(pts, 2, rs, re), cnt)>>

\* ((a_x - p.0) * (avg_y - a_y) - (a_x - avg_x) * (p.1 - a_y)).abs()
TriArea(pa, p, avg) ==
    QAbs(QSub(QMul(I2Q(pa[1] - p[1]), QSub(avg[2], I2Q(pa[2]))),
              QMul(QSub(I2Q(pa[1]), avg[1]), I2Q(p[2] - pa[2]))))

RECURSIVE SelectMaxLastTie(_, _, _, _, _, _, _)
\* faulty variant of SelectMax: `area >= max_area`, so ties go to the last
\* candidate
SelectMaxLastTie(pts, pa, avg, k, se, max_area, max_idx) ==
    IF k >= se THEN max_idx
    ELSE LET area == TriArea(pa, At(pts, k), avg)
         IN  IF QLe(max_area, area)
             THEN SelectMaxLastTie(pts, pa, avg, k + 1, se, area, k)
             ELSE SelectMaxLastTie(pts, pa, avg, k + 1, se, max_area, max_idx)

RECURSIVE SelectMax(_, _, _, _, _, _, _)
\* the loop `for k in start..se`: returns max_idx
SelectMax(pts, pa, avg, k, se, max_area, max_idx) ==
    IF k >= se THEN max_idx
    ELSE LET area == TriArea(pa, At(pts, k), avg)
         IN  IF QLt(max_area, area)
             THEN SelectMax(pts, pa, avg, k + 1, se, area, k)
             ELSE SelectMax(pts, pa, avg, k + 1, se, max_area, max_idx)

\* max_idx of bucket i, with a the index selected in the previous bucket
BucketPick(pts, t, i, a) ==
    LET n == Len(pts)
        start == BucketStart(i, n, t)
        se == IMax(BucketEnd(i, n, t), start + 1)
    IN  SelectMax(pts, At(pts, a), AvgPoint(pts, i, n, t), start, se, I2Q(-1), start)

\* faulty variant of LoopCount: one iteration too few
LoopCountOffByOne(t) == t - 3

\* number of iterations of `for i in 0..(threshold - 2)`
LoopCount(t) == t - 2

RECURSIVE LttbLoop(_, _, _, _, _)
\* the loop over the buckets from bucket i on: the sampled vector at its end
LttbLoop(pts, t, i, a, acc) ==
    IF i >= LoopCount(t) THEN acc
    ELSE LET max_idx == BucketPick(pts, t, i, a)
         IN  LttbLoop(pts, t, i + 1, max_idx, Append(acc, At(pts, max_idx)))

\* the indices k of the reads `points[k]` in iteration i of the bucket loop:
\* rs..re-1 of the next-bucket average, `end` when that range is empty, and
\* the candidates start..se-1 (the anchor a is 0 or a candidate of the
\* previous iteration)
BucketReads(i, n, t) ==
    LET start == BucketStart(i, n, t)
        se == IMax(BucketEnd(i, n, t), start + 1)
        rs == AvgLo(i, n, t)
        re == AvgHi(i, n, t)
    IN  (rs..(re - 1)) \cup (start..(se - 1))
            \cup (IF re - rs <= 0 THEN {BucketEnd(i, n, t)} ELSE {})

\* the indices k of all reads `points[k]` of lttb on n points
LttbReads(n, t) ==
    IF t = 0 \/ n = 0 THEN {}
    ELSE IF t >= n \/ n <= 2 THEN 0..(n - 1)
    ELSE IF t = 1 THEN {0}
    ELSE {0, n - 1} \cup UNION {BucketReads(i, n, t) : i \in 0..(LoopCount(t) - 1)}

\* slice indexing panics on an index outside 0..n-1
lttb_panics(n, t) == ~(LttbReads(n, t) \subseteq 0..(n - 1))

RECURSIVE LttbIndices(_, _, _, _, _)
\* the indices max_idx the bucket loop pushes from bucket i on
LttbIndices(pts, t, i, a, acc) ==
    IF i >= LoopCount(t) THEN acc
    ELSE LET max_idx == BucketPick(pts, t, i, a)
         IN  LttbIndices(pts, t, i + 1, max_idx, Append(acc, max_idx))

\* the indices of the points pushed by lttb past its early returns:
\* 0, the max_idx of every bucket, n - 1
lttb_indices(pts, t) ==
    <<0>> \o LttbIndices(pts, t, 0, 0, <<>>) \o <<Len(pts) - 1>>

\* faulty variant of lttb: the closing push takes points[n - 2]
lttbWrongLast(pts, t) ==
    LET n == Len(pts)
    IN  IF t = 0 \/ n = 0 THEN <<>>
        ELSE IF t >= n \/ n <= 2 THEN pts
        ELSE IF t = 1 THEN <<At(pts, 0)>>
        ELSE Append(LttbLoop(pts, t, 0, 0, <<At(pts, 0)>>), At(pts, n - 2))

lttb(pts, t) ==
    LET n == Len(pts)
    IN  IF t = 0 \/ n = 0 THEN <<>>
        ELSE IF t >= n \/ n <= 2 THEN pts
        ELSE IF t = 1 THEN <<At(pts, 0)>>
        ELSE Append(LttbLoop(pts, t, 0, 0, <<At(pts, 0)>>), At(pts, n - 1))

-----------------------------------------------------------------------------
(* series.rs: Candle and Candle::try_new.  Prices are integers here.       *)

Candle(t, o, h, l, c) == [t |-> t, o |-> o, h |-> h, l |-> l, c |-> c]

Ok(v) == [ok |-> TRUE, value |-> v]
Err(e) == [ok |-> FALSE, error |-> e]

ErrLow == "low above min(open,close)"
ErrHigh == "high below max(open,close)"
ErrLowHigh == "low above high"

\* faulty variant of try_new: the high check runs before the low check
try_newHighFirst(t, o, h, l, c) ==
    LET lo == IMin(o, c)
        hi == IMax(o, c)
    IN  IF h < hi THEN Err(ErrHigh)
        ELSE IF l > lo THEN Err(ErrLow)
        ELSE IF l > h THEN Err(ErrLowHigh)
        ELSE Ok(Candle(t, o, h, l, c))

try_new(t, o, h, l, c) ==
    LET lo == IMin(o, c)
        hi == IMax(o, c)
    IN  IF l > lo THEN Err(ErrLow)
        ELSE IF h < hi THEN Err(ErrHigh)
        ELSE IF l > h THEN Err(ErrLowHigh)
        ELSE Ok(Candle(t, o, h, l, c))

-----------------------------------------------------------------------------
(* downsample.rs: aggregate_ohlc_buckets                                   *)

RECURSIVE WindowLow(_, _, _, _)
\* `low` after the loop `for k in (i + 1)..j` has run from k on
WindowLow(d, k, j, low) ==
    IF k >= j THEN low ELSE WindowLow(d, k + 1, j, IMin(low, At(d, k).l))

RECURSIVE WindowHighLoop(_, _, _, _)
\* `high` after the loop `for k in (i + 1)..j` has run from k on
WindowHighLoop(d, k, j, high) ==
    IF k >= j THEN high ELSE WindowHighLoop(d, k + 1, j, IMax(high, At(d, k).h))

\* faulty variant of WindowHigh: the high of the first candle only
WindowHighFirstOnly(d, i, j) == At(d, i).h

\* `high` of the window i..j-1
WindowHigh(d, i, j) == WindowHighLoop(d, i + 1, j, At(d, i).h)

\* faulty variant of WindowClose: the close of the first candle
WindowCloseFirst(d, i, j) == At(d, i).c

\* last.c, with last = data[j - 1]
WindowClose(d, i, j) == At(d, j - 1).c

\* the candle pushed for the window i..j-1
WindowCandle(d, i, j) ==
    LET first == At(d, i)
    IN  Candle(first.t, first.o, WindowHigh(d, i, j),
               WindowLow(d, i + 1, j, first.l), WindowClose(d, i, j))

RECURSIVE AggLoop(_, _, _, _)
\* the loop `while i < n`: the out vector at its end
AggLoop(d, b, i, acc) ==
    IF i >= Len(d) THEN acc
    ELSE LET j == IMin(i + b, Len(d))
         IN  AggLoop(d, b, j, Append(acc, WindowCandle(d, i, j)))

aggregate_ohlc_buckets(d, b) ==
    IF b <= 1 \/ Len(d) <= 2 THEN d ELSE AggLoop(d, b, 0, <<>>)

RECURSIVE AggReadsFrom(_, _, _)
\* the indices k of the reads `data[k]` of the loop `while i < n` from i on:
\* first = data[i], last = data[j - 1] and data[k] for k in (i + 1)..j
AggReadsFrom(n, b, i) ==
    IF i >= n THEN {}
    ELSE LET j == IMin(i + b, n)
         IN  {i, j - 1} \cup ((i + 1)..(j - 1)) \cup AggReadsFrom(n, b, j)

\* the indices k of all reads `data[k]` of aggregate_ohlc_buckets
AggReads(n, b) ==
    IF b <= 1 \/ n <= 2 THEN 0..(n - 1) ELSE AggReadsFrom(n, b, 0)

\* slice indexing panics on an index outside 0..n-1
aggregate_ohlc_buckets_panics(n, b) == ~(AggReads(n, b) \subseteq 0..(n - 1))

-----------------------------------------------------------------------------
(* scale.rs: TimeScale                                                     *)

BarSpacingFloor == Q(1, 100)   \* 0.01
BarSpacingMin == Q(1, 2)       \* 0.5
BarSpacingMax == Q(200, 1)     \* 200.0

\* faulty variant of TimeScale_new: bar_spacing is not floored
TimeScale_newNoFloor(left_px, start_logical, bar_spacing) ==
    [left_px |-> left_px, start_logical |-> start_logical, bar_spacing |-> bar_spacing]

TimeScale_new(left_px, start_logical, bar_spacing) ==
    [left_px |-> left_px, start_logical |-> start_logical,
     bar_spacing |-> QMax(bar_spacing, BarSpacingFloor)]

TimeScale_to_px(s, x) ==
    QAdd(s.left_px, QMul(QSub(x, s.start_logical), s.bar_spacing))

TimeScale_from_px(s, px) ==
    QAdd(s.start_logical, QDiv(QSub(px, s.left_px), s.bar_spacing))

\* faulty variant of TimeScale_zoom_at: the new start divides by the old spacing
TimeScale_zoom_atOldSpacing(s, cursor_px, factor) ==
    LET cx == TimeScale_from_px(s, cursor_px)
        new_spacing == QClamp(QMul(s.bar_spacing, factor), BarSpacingMin, BarSpacingMax)
    IN  [left_px |-> s.left_px,
         bar_spacing |-> new_spacing,
         start_logical |-> QSub(cx, QDiv(QSub(cursor_px, s.left_px), s.bar_spacing))]

TimeScale_zoom_at(s, cursor_px, factor) ==
    LET cx == TimeScale_from_px(s, cursor_px)
        new_spacing == QClamp(QMul(s.bar_spacing, factor), BarSpacingMin, BarSpacingMax)
    IN  [left_px |-> s.left_px,
         bar_spacing |-> new_spacing,
         start_logical |-> QSub(cx, QDiv(QSub(cursor_px, s.left_px), new_spacing))]

\* faulty variant of pan_px: the pixel delta is taken as a logical delta
TimeScale_pan_pxLogical(s, dx_px) ==
    [s EXCEPT !.start_logical = QSub(s.start_logical, dx_px)]

TimeScale_pan_px(s, dx_px) ==
    [s EXCEPT !.start_logical = QSub(s.start_logical, QDiv(dx_px, s.bar_spacing))]

-----------------------------------------------------------------------------
(* scale.rs: ValueScale                                                    *)

\* The values of a Log10 scale are held by sign and decimal exponent:
\* [sign |-> 1, exp10 |-> e] stands for 10^e, with e an exact rational, and
\* sign 0 for zero, sign -1 for -(10^e).  log10 and powf(10, .) convert
\* between a value and its exponent.
Pow10(e) == [sign |-> 1, exp10 |-> e]
Zero10 == [sign |-> 0, exp10 |-> I2Q(0)]
Neg10(e) == [sign |-> -1, exp10 |-> e]

\* f64::log10: -inf at zero, NaN below it
log10(v) ==
    IF v.sign > 0 THEN v.exp10 ELSE IF v.sign = 0 THEN NegInfinity ELSE NaN

\* 10f64.powf(e)
powf10(e) == IF e = NegInfinity THEN Zero10 ELSE Pow10(e)

\* the exponent of the literal 1e-12
EpsExp == -12

\* v <= 1e-12 for a sign/exponent value v
LeEps(v) == v.sign <= 0 \/ QLe(v.exp10, I2Q(EpsExp))

\* v.max(1e-12) for a sign/exponent value v
MaxEps(v) == IF LeEps(v) THEN Pow10(I2Q(EpsExp)) ELSE v

\* a < 1e-12 for a rational a: every positive value of the model is at
\* least 2^-31, so a < 1e-12 exactly when a <= 0
QLtEps(a) == a # NaN /\ a # Infinity /\ a[1] <= 0

\* span.max(1e-12) for a rational span: the span itself when it is
\* positive.  1e-12 is below the resolution of the model's integers; a
\* scale with finite bounds has a positive span and never takes the floor.
\* Only a span that is NaN does (a bound is NaN already, two calls after a
\* zoom by factor 0), and that span is left NaN here.
MaxEpsSpan(a) == IF QLt(I2Q(0), a) THEN a ELSE NaN

\* 1 / 1e-9, the reciprocal of the floor of new_span in zoom_center
NewSpanFloorInv == 1000000000

\* x.max(1e-9)
MaxNewSpan(x) ==
    IF is_nan(x) \/ QLt(x, I2Q(0)) \/ QLtInv(x, NewSpanFloorInv)
    THEN Q(1, NewSpanFloorInv) ELSE x

ValueScale(top_px, bottom_px, vmin, vmax, log, log_min, log_max) ==
    [top_px |-> top_px, bottom_px |-> bottom_px, vmin |-> vmin, vmax |-> vmax,
     log |-> log, log_min |-> log_min, log_max |-> log_max]

ValueScale_new_linear(top_px, bottom_px, vmin, vmax) ==
    ValueScale(top_px, bottom_px, vmin,
               IF QLtEps(QAbs(QSub(vmax, vmin))) THEN QAdd(vmin, I2Q(1)) ELSE vmax,
               FALSE, I2Q(0), I2Q(0))

ValueScale_new_log10(top_px, bottom_px, vmin0, vmax0) ==
    LET vmin == IF LeEps(vmin0) THEN Pow10(I2Q(EpsExp)) ELSE vmin0
        vmax == IF vmax0.sign <= 0 \/ QLe(vmax0.exp10, vmin.exp10)
                THEN Pow10(QAdd(vmin.exp10, I2Q(1))) ELSE vmax0
    IN  ValueScale(top_px, bottom_px, vmin, vmax, TRUE, log10(vmin), log10(vmax))

ValueScale_to_px(s, y) ==
    IF s.log
    THEN LET yy == log10(MaxEps(y))
             span == MaxEpsSpan(QSub(s.log_max, s.log_min))
         IN  QSub(s.bottom_px,
                  QMul(QDiv(QSub(yy, s.log_min), span), QSub(s.bottom_px, s.top_px)))
    ELSE LET span == MaxEpsSpan(QSub(s.vmax, s.vmin))
         IN  QSub(s.bottom_px,
                  QMul(QDiv(QSub(y, s.vmin), span), QSub(s.bottom_px, s.top_px)))

\* faulty variant of from_px: the fraction is measured from top_px
ValueScale_from_pxFromTop(s, py) ==
    LET f == QDiv(QSub(py, s.top_px), QSub(s.bottom_px, s.top_px))
    IN  IF s.log
        THEN powf10(QAdd(s.log_min, QMul(f, MaxEpsSpan(QSub(s.log_max, s.log_min)))))
        ELSE QAdd(s.vmin, QMul(f, MaxEpsSpan(QSub(s.vmax, s.vmin))))

ValueScale_from_px(s, py) ==
    LET f == QDiv(QSub(s.bottom_px, py), QSub(s.bottom_px, s.top_px))
    IN  IF s.log
        THEN powf10(QAdd(s.log_min, QMul(f, MaxEpsSpan(QSub(s.log_max, s.log_min)))))
        ELSE QAdd(s.vmin, QMul(f, MaxEpsSpan(QSub(s.vmax, s.vmin))))

ValueScale_pan_px(s, dy_px) ==
    LET frac == QDiv(dy_px, QMax(QSub(s.bottom_px, s.top_px), I2Q(1)))
    IN  IF s.log
        THEN LET delta == QMul(MaxEpsSpan(QSub(s.log_max, s.log_min)), frac)
                 log_min == QAdd(s.log_min, delta)
                 log_max == QAdd(s.log_max, delta)
             IN  [s EXCEPT !.log_min = log_min, !.log_max = log_max,
                           !.vmin = powf10(log_min), !.vmax = powf10(log_max)]
        ELSE LET delta == QMul(MaxEpsSpan(QSub(s.vmax, s.vmin)), frac)
             IN  [s EXCEPT !.vmin = QAdd(s.vmin, delta), !.vmax = QAdd(s.vmax, delta)]

ValueScale_zoom_center(s, center_y, factor) ==
    IF s.log
    THEN LET cy == log10(MaxEps(center_y))
             span == MaxEpsSpan(QSub(s.log_max, s.log_min))
             half == QMul(MaxNewSpan(QDiv(span, factor)), Q(1, 2))
         IN  [s EXCEPT !.log_min = QSub(cy, half), !.log_max = QAdd(cy, half),
                       !.vmin = powf10(QSub(cy, half)), !.vmax = powf10(QAdd(cy, half))]
    ELSE LET span == MaxEpsSpan(QSub(s.vmax, s.vmin))
             half == QMul(MaxNewSpan(QDiv(span, factor)), Q(1, 2))
         IN  [s EXCEPT !.vmin = QSub(center_y, half), !.vmax = QAdd(center_y, half)]

-----------------------------------------------------------------------------
(* series.rs: Series; view.rs: ViewState::from_chart                       *)

XYTypes == {"Line", "Histogram", "Baseline"}
OhlcTypes == {"Candlestick", "Bar"}

None == <<>>
Some(v) == <<v>>

\* Series { series_type, data_xy, data_ohlc, baseline }
Series(series_type, data_xy, data_ohlc, baseline) ==
    [series_type |-> series_type, data_xy |-> data_xy,
     data_ohlc |-> data_ohlc, baseline |-> baseline]

\* faulty variant of is_finite: only NaN is rejected
is_finiteNotNaN(a) == ~is_nan(a)

is_finite(a) == a[2] # 0

RECURSIVE ScanXY(_, _)
\* the loop `for &(x, y) in &s.data_xy`
ScanXY(pts, e) ==
    IF pts = <<>> THEN e
    ELSE ScanXY(Tail(pts),
                [x_min |-> QMin(e.x_min, I2Q(Head(pts)[1])),
                 x_max |-> QMax(e.x_max, I2Q(Head(pts)[1])),
                 y_min |-> QMin(e.y_min, I2Q(Head(pts)[2])),
                 y_max |-> QMax(e.y_max, I2Q(Head(pts)[2]))])

RECURSIVE ScanOhlc(_, _)
\* the loop `for c in &s.data_ohlc`
ScanOhlc(cs, e) ==
    IF cs = <<>> THEN e
    ELSE ScanOhlc(Tail(cs),
                  [x_min |-> QMin(e.x_min, I2Q(Head(cs).t)),
                   x_max |-> QMax(e.x_max, I2Q(Head(cs).t)),
                   y_min |-> QMin(e.y_min, I2Q(Head(cs).l)),
                   y_max |-> QMax(e.y_max, I2Q(Head(cs).h))])

\* faulty variant of ScanSeries: the baseline of an XY series is not scanned
ScanSeriesNoBaseline(sr, e) ==
    IF sr.series_type \in XYTypes
    THEN ScanXY(sr.data_xy, e)
    ELSE ScanOhlc(sr.data_ohlc, e)

\* one arm of `match s.series_type`
ScanSeries(sr, e) ==
    IF sr.series_type \in XYTypes
    THEN LET e1 == ScanXY(sr.data_xy, e)
         IN  IF sr.baseline # None
             THEN [e1 EXCEPT !.y_min = QMin(e1.y_min, I2Q(sr.baseline[1])),
                             !.y_max = QMax(e1.y_max, I2Q(sr.baseline[1]))]
             ELSE e1
    ELSE ScanOhlc(sr.data_ohlc, e)

RECURSIVE ScanChart(_, _)
\* the loop `for s in &chart.series`
ScanChart(ss, e) ==
    IF ss = <<>> THEN e ELSE ScanChart(Tail(ss), ScanSeries(Head(ss), e))

\* 1 / 1e-9, the reciprocal of the degenerate-span threshold of from_chart
DegenerateSpanInv == 1000000000

ViewState(x_min, x_max, y_min, y_max) ==
    [x_min |-> x_min, x_max |-> x_max, y_min |-> y_min, y_max |-> y_max]

from_chart(c) ==
    LET e == ScanChart(c, ViewState(Infinity, NegInfinity, Infinity, NegInfinity))
        x_max == IF QLtInv(QAbs(QSub(e.x_max, e.x_min)), DegenerateSpanInv)
                 THEN QAdd(e.x_min, I2Q(1)) ELSE e.x_max
        y_max == IF QLtInv(QAbs(QSub(e.y_max, e.y_min)), DegenerateSpanInv)
                 THEN QAdd(e.y_min, I2Q(1)) ELSE e.y_max
        ym == QMul(QSub(y_max, e.y_min), Q(2, 100))
    IN  IF ~is_finite(e.x_min) \/ ~is_finite(e.x_max)
           \/ ~is_finite(e.y_min) \/ ~is_finite(e.y_max)
        THEN ViewState(I2Q(0), I2Q(1), I2Q(0), I2Q(1))
        ELSE ViewState(e.x_min, x_max, QSub(e.y_min, ym), QAdd(y_max, ym))

-----------------------------------------------------------------------------
(* types.rs: Insets; view.rs: ViewState::pan_by_pixels, zoom_at_pixel      *)

Insets(left, right, top, bottom) ==
    [left |-> left, right |-> right, top |-> top, bottom |-> bottom]

\* faulty variant of pan_by_pixels: the vertical delta has the sign of the
\* horizontal one
pan_by_pixelsSameSign(v, dx, dy, width, height, insets) ==
    LET plot_w == QMax(I2Q(width - insets.right - insets.left), I2Q(1))
        plot_h == QMax(I2Q(height - insets.bottom - insets.top), I2Q(1))
        x_span == QSub(v.x_max, v.x_min)
        y_span == QSub(v.y_max, v.y_min)
        wx == QMul(QDiv(QNeg(dx), plot_w), x_span)
        wy == QMul(QDiv(QNeg(dy), plot_h), y_span)
    IN  ViewState(QAdd(v.x_min, wx), QAdd(v.x_max, wx),
                  QAdd(v.y_min, wy), QAdd(v.y_max, wy))

pan_by_pixels(v, dx, dy, width, height, insets) ==
    LET plot_w == QMax(I2Q(width - insets.right - insets.left), I2Q(1))
        plot_h == QMax(I2Q(height - insets.bottom - insets.top), I2Q(1))
        x_span == QSub(v.x_max, v.x_min)
        y_span == QSub(v.y_max, v.y_min)
        wx == QMul(QDiv(QNeg(dx), plot_w), x_span)
        wy == QMul(QDiv(dy, plot_h), y_span)
    IN  ViewState(QAdd(v.x_min, wx), QAdd(v.x_max, wx),
                  QAdd(v.y_min, wy), QAdd(v.y_max, wy))

\* f64::clamp(min, max) asserts min <= max: zoom_at_pixel panics when the
\* insets exceed the window on either axis
zoom_at_pixel_panics(width, height, insets) ==
    \/ insets.left > width - insets.right
    \/ insets.top > height - insets.bottom

zoom_at_pixel(v, scroll, cursor_x, cursor_y, width, height, insets) ==
    LET l == I2Q(insets.left)
        rpx == I2Q(width - insets.right)
        t == I2Q(insets.top)
        bpx == I2Q(height - insets.bottom)
        plot_w == QMax(QSub(rpx, l), I2Q(1))
        plot_h == QMax(QSub(bpx, t), I2Q(1))
        cx == QClamp(cursor_x, l, rpx)
        cy == QClamp(cursor_y, t, bpx)
        x_span == QSub(v.x_max, v.x_min)
        y_span == QSub(v.y_max, v.y_min)
        wx == QAdd(v.x_min, QMul(QDiv(QSub(cx, l), plot_w), x_span))
        wy == QSub(v.y_max, QMul(QDiv(QSub(cy, t), plot_h), y_span))
        factor == QClamp(QSub(I2Q(1), scroll), Q(1, 10), I2Q(10))
        nx == QMul(x_span, factor)
        ny == QMul(y_span, factor)
        rx == QDiv(QSub(wx, v.x_min), x_span)
        ry == QDiv(QSub(v.y_max, wy), y_span)
        x_min == QSub(wx, QMul(rx, nx))
        y_max == QAdd(wy, QMul(ry, ny))
    IN  ViewState(x_min, QAdd(x_min, nx), QSub(y_max, ny), y_max)

-----------------------------------------------------------------------------
(* view.rs: visible_y_range and ViewState::autoscale_y_visible             *)

RECURSIVE VisibleXYAll(_, _, _, _)
\* faulty variant of VisibleXY: the test of x against the window is missing
VisibleXYAll(pts, x_min, x_max, r) ==
    IF pts = <<>> THEN r
    ELSE LET y == I2Q(Head(pts)[2])
         IN  VisibleXYAll(Tail(pts), x_min, x_max,
                          [y_min |-> QMin(r.y_min, y),
                           y_max |-> QMax(r.y_max, y), any |-> TRUE])

RECURSIVE VisibleXY(_, _, _, _)
\* the loop `for &(x, y) in &s.data_xy` of visible_y_range
VisibleXY(pts, x_min, x_max, r) ==
    IF pts = <<>> THEN r
    ELSE LET x == I2Q(Head(pts)[1])
             y == I2Q(Head(pts)[2])
         IN  VisibleXY(Tail(pts), x_min, x_max,
                       IF QLe(x_min, x) /\ QLe(x, x_max)
                       THEN [y_min |-> QMin(r.y_min, y),
                             y_max |-> QMax(r.y_max, y), any |-> TRUE]
                       ELSE r)

RECURSIVE VisibleOhlc(_, _, _, _)
\* the loop `for c in &s.data_ohlc` of visible_y_range
VisibleOhlc(cs, x_min, x_max, r) ==
    IF cs = <<>> THEN r
    ELSE LET c == Head(cs)
         IN  VisibleOhlc(Tail(cs), x_min, x_max,
                         IF QLe(x_min, I2Q(c.t)) /\ QLe(I2Q(c.t), x_max)
                         THEN [y_min |-> QMin(r.y_min, I2Q(c.l)),
                               y_max |-> QMax(r.y_max, I2Q(c.h)), any |-> TRUE]
                         ELSE r)

\* faulty variant of VisibleSeries: a baseline counts as a visible point
VisibleSeriesBaselineAny(sr, x_min, x_max, r) ==
    IF sr.series_type \in XYTypes
    THEN LET r1 == VisibleXY(sr.data_xy, x_min, x_max, r)
         IN  IF sr.baseline # None
             THEN [y_min |-> QMin(r1.y_min, I2Q(sr.baseline[1])),
                   y_max |-> QMax(r1.y_max, I2Q(sr.baseline[1])), any |-> TRUE]
             ELSE r1
    ELSE VisibleOhlc(sr.data_ohlc, x_min, x_max, r)

\* one arm of `match s.series_type` in visible_y_range
VisibleSeries(sr, x_min, x_max, r) ==
    IF sr.series_type \in XYTypes
    THEN LET r1 == VisibleXY(sr.data_xy, x_min, x_max, r)
         IN  IF sr.baseline # None
             THEN [r1 EXCEPT !.y_min = QMin(r1.y_min, I2Q(sr.baseline[1])),
                             !.y_max = QMax(r1.y_max, I2Q(sr.baseline[1]))]
             ELSE r1
    ELSE VisibleOhlc(sr.data_ohlc, x_min, x_max, r)

RECURSIVE VisibleChart(_, _, _, _)
\* the loop `for s in &chart.series` of visible_y_range
VisibleChart(ss, x_min, x_max, r) ==
    IF ss = <<>> THEN r
    ELSE VisibleChart(Tail(ss), x_min, x_max,
                      VisibleSeries(Head(ss), x_min, x_max, r))

\* Some((y_min, y_max)) or None
visible_y_range(c, x_min, x_max) ==
    LET r == VisibleChart(c, x_min, x_max,
                          [y_min |-> Infinity, y_max |-> NegInfinity, any |-> FALSE])
    IN  IF r.any THEN Some(<<r.y_min, r.y_max>>) ELSE None

\* the view after the call and the returned bool
autoscale_y_visible(v, c) ==
    LET o == visible_y_range(c, v.x_min, v.x_max)
    IN  IF o # None
        THEN LET ymin == o[1][1]
                 ymax == o[1][2]
                 m == QMul(QSub(ymax, ymin), Q(2, 100))
             IN  [view |-> [v EXCEPT !.y_min = QSub(ymin, m), !.y_max = QAdd(ymax, m)],
                  ret |-> TRUE]
        ELSE [view |-> v, ret |-> FALSE]

-----------------------------------------------------------------------------
(* Inputs of the pure functions.                                           *)

\* coordinates the input points are drawn from (any order, repeats allowed)
PointVals == {<<0, 0>>, <<1, 2>>, <<2, 1>>, <<3, 3>>}

\* <<o, h, l, c>> of the input candles: three well-formed candles and one
\* whose high lies below its close (the fields of Candle are public)
CandleShapes == {<<2, 4, 1, 3>>, <<4, 6, 3, 5>>, <<4, 4, 0, 1>>, <<3, 2, 1, 3>>}

\* the candles of the given shapes at times 0, 1, 2, ...
CandlesOf(shapes) ==
    [k \in 1..Len(shapes) |->
        Candle(k - 1, shapes[k][1], shapes[k][2], shapes[k][3], shapes[k][4])]

Prices == 0..MaxPrice

SeqsUpTo(S, n) == UNION {[1..k -> S] : k \in 0..n}

Idle == "idle"

-----------------------------------------------------------------------------
(* Specification of the lttb driver.                                       *)

\* the parts of the state a driver does not use
NoLttb == points = <<>> /\ threshold = 0 /\ sampled = <<>>
NoAgg == data = <<>> /\ bucket = 0 /\ out = <<>>
NoCandle == cargs = <<>> /\ cres = Idle
NoTs == ts = Idle /\ ts_call = Idle
NoView == view = Idle /\ view_call = Idle /\ chart = <<>>
NoVs == vs = Idle /\ vs_call = Idle
NoDs == ds = Idle
NoTicks == ticks = Idle
NoAxes == axes_chart = Idle /\ axes_call = Idle

InitLttb ==
    /\ pc = "lttb"
    /\ points \in SeqsUpTo(PointVals, MaxPoints)
    /\ threshold \in 0..MaxThreshold
    /\ sampled = <<>>
    /\ NoAgg /\ NoCandle /\ NoTs /\ NoView /\ NoVs
    /\ NoDs /\ NoTicks /\ NoAxes
    /\ panicked = FALSE

CallLttb ==
    /\ pc = "lttb"
    /\ IF lttb_panics(Len(points), threshold)
       THEN panicked' = TRUE /\ sampled' = sampled
       ELSE panicked' = panicked /\ sampled' = lttb(points, threshold)
    /\ pc' = "lttb_done"
    /\ UNCHANGED <<points, threshold, aggVars, candleVars, tsVars, viewVars, vsVars,
                 dsVars, ticksVars, axesVars>>

NextLttb == CallLttb

SpecLttb == InitLttb /\ [][NextLttb]_vars

\* C1: for n > 2 points and threshold t >= 2, lttb returns exactly
\* min(n, t) points.
LttbLength ==
    (pc = "lttb_done" /\ Len(points) > 2 /\ threshold >= 2)
        => Len(sampled) = IMin(Len(points), threshold)

\* a call that reduces 5 points to 4
LttbLengthWitness ==
    /\ pc = "lttb_done"
    /\ Len(points) = 5
    /\ threshold = 4
    /\ Len(sampled) = 4

\* C2: for n > 2 points and threshold t >= 2, the first returned point is
\* points[0] and the last returned point is points[n - 1].
LttbEndpoints ==
    (pc = "lttb_done" /\ Len(points) > 2 /\ threshold >= 2)
        => /\ Len(sampled) >= 1
           /\ sampled[1] = At(points, 0)
           /\ sampled[Len(sampled)] = At(points, Len(points) - 1)

\* a reducing call whose last two input points differ
LttbEndpointsWitness ==
    /\ pc = "lttb_done"
    /\ Len(points) = 5
    /\ threshold = 3
    /\ At(points, 3) # At(points, 4)
    /\ sampled[Len(sampled)] = At(points, 4)
    /\ sampled[1] = At(points, 0)

-----------------------------------------------------------------------------
(* Specification of the aggregate_ohlc_buckets driver.                     *)

InitAgg ==
    /\ pc = "agg"
    /\ \E shapes \in SeqsUpTo(CandleShapes, MaxCandles) : data = CandlesOf(shapes)
    /\ bucket \in 0..MaxBucket
    /\ out = <<>>
    /\ NoLttb /\ NoCandle /\ NoTs /\ NoView /\ NoVs
    /\ NoDs /\ NoTicks /\ NoAxes
    /\ panicked = FALSE

CallAggregate ==
    /\ pc = "agg"
    /\ IF aggregate_ohlc_buckets_panics(Len(data), bucket)
       THEN panicked' = TRUE /\ out' = out
       ELSE panicked' = panicked /\ out' = aggregate_ohlc_buckets(data, bucket)
    /\ pc' = "agg_done"
    /\ UNCHANGED <<data, bucket, lttbVars, candleVars, tsVars, viewVars, vsVars,
                 dsVars, ticksVars, axesVars>>

NextAgg == CallAggregate

SpecAgg == InitAgg /\ [][NextAgg]_vars

\* the candles data[lo..hi-1]
Window(lo, hi) == {At(data, k) : k \in lo..(hi - 1)}

\* l <= min(o,c), h >= max(o,c), l <= h
WellFormed(x) == x.l <= IMin(x.o, x.c) /\ x.h >= IMax(x.o, x.c) /\ x.l <= x.h

CeilDiv(n, b) == (n + b - 1) \div b

\* C3: with bucket b >= 2 and more than 2 candles the input is cut into
\* consecutive windows of b candles (the last may be shorter) and the w-th
\* output candle has t and o of the window's first candle, c of its last
\* candle, h the greatest high and l the least low of the window.
AggregateWindows ==
    (pc = "agg_done" /\ bucket >= 2 /\ Len(data) > 2) =>
        LET n == Len(data)
        IN  /\ (Len(out) - 1) * bucket < n
            /\ n <= Len(out) * bucket
            /\ \A w \in 0..(Len(out) - 1) :
                LET lo == w * bucket
                    hi == IMin(lo + bucket, n)
                    o_w == At(out, w)
                IN  /\ o_w.t = At(data, lo).t
                    /\ o_w.o = At(data, lo).o
                    /\ o_w.c = At(data, hi - 1).c
                    /\ \A x \in Window(lo, hi) : x.h <= o_w.h /\ o_w.l <= x.l
                    /\ \E x \in Window(lo, hi) : x.h = o_w.h
                    /\ \E x \in Window(lo, hi) : x.l = o_w.l

\* four candles in buckets of three: a full window and a shorter last one
AggregateWindowsWitness ==
    /\ pc = "agg_done"
    /\ Len(data) = 4
    /\ bucket = 3
    /\ Len(out) = 2
    /\ out[1].c # data[1].c
    /\ out[2] = data[4]

\* C4 as stated: for every length n and every bucket size >= 1 the result
\* has ceil(n / bucket_size) candles.
AggregateLengthCeil ==
    (pc = "agg_done" /\ bucket >= 1) => Len(out) = CeilDiv(Len(data), bucket)

\* C5: when every input candle is well formed, every returned candle is
\* well formed, and its high (low) is >= (<=) every open and close of the
\* input candles it was built from.
AggregateKeepsOhlc ==
    (pc = "agg_done" /\ \A k \in 1..Len(data) : WellFormed(data[k])) =>
        LET width == IF bucket <= 1 \/ Len(data) <= 2 THEN 1 ELSE bucket
        IN  \A w \in 0..(Len(out) - 1) :
                /\ WellFormed(At(out, w))
                /\ \A x \in Window(w * width, IMin(w * width + width, Len(data))) :
                    /\ At(out, w).h >= IMax(x.o, x.c)
                    /\ At(out, w).l <= IMin(x.o, x.c)

\* well-formed candles merged into a bucket whose high is not the first's
AggregateKeepsOhlcWitness ==
    /\ pc = "agg_done"
    /\ Len(data) = 3
    /\ bucket = 2
    /\ \A k \in 1..Len(data) : WellFormed(data[k])
    /\ Len(out) = 2
    /\ out[1].h > data[1].h

\* floor of a rational
Floor(q) == q[1] \div q[2]

\* floor(1 + i * b) with b = (n - 2) / (threshold - 2)
EdgeOf(i) ==
    Floor(QAdd(I2Q(1), QMul(I2Q(i), Q(Len(points) - 2, threshold - 2))))

\* the mean of the input points with indices in lo..hi-1
MeanOf(lo, hi) ==
    <<Q(SumRange(points, 1, lo, hi), hi - lo), Q(SumRange(points, 2, lo, hi), hi - lo)>>

\* |(ax - xk) * (avgy - ay) - (ax - avgx) * (yk - ay)|
AreaOf(a, k, avg) ==
    QAbs(QSub(QMul(I2Q(a[1] - At(points, k)[1]), QSub(avg[2], I2Q(a[2]))),
              QMul(QSub(I2Q(a[1]), avg[1]), I2Q(At(points, k)[2] - a[2]))))

LttbIncreasingIndices ==
    (pc = "lttb_done" /\ 2 <= threshold /\ threshold < Len(points)) =>
        LET idx == lttb_indices(points, threshold)
            n == Len(points)
        IN  /\ Len(idx) = threshold
            /\ idx[1] = 0
            /\ idx[threshold] = n - 1
            /\ \A k \in 1..(threshold - 1) : idx[k] < idx[k + 1]
            /\ \A k \in 2..(threshold - 1) : idx[k] \in 1..(n - 2)
            /\ sampled = [k \in 1..threshold |-> At(points, idx[k])]
            /\ (\A k \in 1..(n - 1) : At(points, k - 1)[1] <= At(points, k)[1])
                   => \A k \in 1..(threshold - 1) : sampled[k][1] <= sampled[k + 1][1]

\* an x-ascending input of five points reduced to four
LttbIncreasingIndicesWitness ==
    /\ pc = "lttb_done"
    /\ threshold = 4
    /\ points = <<<<0, 0>>, <<1, 2>>, <<2, 1>>, <<2, 1>>, <<3, 3>>>>
    /\ Len(sampled) = 4
    /\ lttb_indices(points, threshold)[2] < lttb_indices(points, threshold)[3]

-----------------------------------------------------------------------------
(* Degenerate inputs of lttb, and both reducers as total functions.        *)

\* C15: lttb returns at most `threshold` points, and exactly
\* min(threshold, n) points outside the special cases (threshold = 0, no
\* input, threshold >= n, n <= 2, threshold = 1).
LttbUpToThreshold ==
    pc = "lttb_done" =>
        /\ Len(sampled) <= threshold
        /\ (threshold >= 2 /\ Len(points) > 2 /\ threshold < Len(points))
               => Len(sampled) = IMin(threshold, Len(points))

\* C16: threshold = 0 or no input gives no point; otherwise threshold >= n or
\* n <= 2 gives the input unchanged; threshold = 1 gives the single point
\* points[0].
LttbDegenerate ==
    pc = "lttb_done" =>
        /\ (threshold = 0 \/ Len(points) = 0) => sampled = <<>>
        /\ (threshold > 0 /\ Len(points) > 0
                /\ (threshold >= Len(points) \/ Len(points) <= 2))
               => sampled = points
        /\ (threshold = 1 /\ Len(points) > 0) => sampled = <<At(points, 0)>>

\* both reducers, each called once on an arbitrary input
SpecReducers == (InitLttb \/ InitAgg) /\ [][NextLttb \/ NextAgg]_vars

\* C13: lttb and aggregate_ohlc_buckets return for every slice and every
\* threshold or bucket size >= 0: no call panics, and every index they read
\* lies in 0..n-1.
ReducersTotal ==
    /\ ~panicked
    /\ pc = "lttb_done" =>
           LttbReads(Len(points), threshold) \subseteq 0..(Len(points) - 1)
    /\ pc = "agg_done" =>
           AggReads(Len(data), bucket) \subseteq 0..(Len(data) - 1)

\* a reducing call whose next-bucket average reads the last point, the
\* bound n - 1 of next_end being the smaller operand
ReducersTotalWitness ==
    /\ pc = "lttb_done"
    /\ ~panicked
    /\ Len(points) = 5
    /\ threshold = 3
    /\ BucketEdge(2, 5, 3) > 4
    /\ 4 \in BucketReads(0, 5, 3)
    /\ Len(sampled) = 3

-----------------------------------------------------------------------------
(* Specification of the Candle::try_new driver.                            *)

InitCandle ==
    /\ pc = "try_new"
    /\ cargs \in [t : {0}, o : Prices, h : Prices, l : Prices, c : Prices]
    /\ cres = Idle
    /\ NoLttb /\ NoAgg /\ NoTs /\ NoView /\ NoVs
    /\ NoDs /\ NoTicks /\ NoAxes
    /\ panicked = FALSE

CallTryNew ==
    /\ pc = "try_new"
    /\ cres' = try_new(cargs.t, cargs.o, cargs.h, cargs.l, cargs.c)
    /\ pc' = "try_new_done"
    /\ UNCHANGED <<cargs, lttbVars, aggVars, tsVars, viewVars, vsVars, panicked,
                 dsVars, ticksVars, axesVars>>

NextCandle == CallTryNew

SpecCandle == InitCandle /\ [][NextCandle]_vars

\* C6: try_new returns Ok, with exactly the given fields, iff l <= min(o,c),
\* h >= max(o,c) and l <= h; otherwise the error is that of the first
\* failing check in the order low, high, low-above-high.
TryNewContract ==
    pc = "try_new_done" =>
        LET o == cargs.o
            h == cargs.h
            l == cargs.l
            c == cargs.c
            lowOk == l <= IMin(o, c)
            highOk == h >= IMax(o, c)
        IN  /\ cres.ok <=> (lowOk /\ highOk /\ l <= h)
            /\ cres.ok => cres.value = cargs
            /\ ~cres.ok =>
                /\ cres.error \in {ErrLow, ErrHigh, ErrLowHigh}
                /\ cres.error = ErrLow <=> ~lowOk
                /\ cres.error = ErrHigh <=> (lowOk /\ ~highOk)
                /\ cres.error = ErrLowHigh <=> (lowOk /\ highOk /\ l > h)

\* a call failing both the low and the high check, reported as the low one
TryNewContractWitness ==
    /\ pc = "try_new_done"
    /\ cargs.l > IMin(cargs.o, cargs.c)
    /\ cargs.h < IMax(cargs.o, cargs.c)
    /\ ~cres.ok
    /\ cres.error = ErrLow

-----------------------------------------------------------------------------
(* Specification of a TimeScale built by TimeScale::new and then driven by *)
(* zoom_at and pan_px.                                                     *)

\* arguments of TimeScale::new; spacings below the floor and above the
\* zoom clamp are included
TsLeftPx == {I2Q(0), I2Q(72)}
TsStart == {I2Q(0), Q(-5, 2)}
TsSpacing == {I2Q(0), Q(1, 200), I2Q(3), I2Q(250)}
\* arguments of zoom_at and pan_px
TsCursorPx == {I2Q(72), I2Q(100)}
TsFactor == {Q(1, 2), I2Q(2), I2Q(1000), Q(-1, 1)}
TsPanDx == {I2Q(7), I2Q(-30)}

InitTs ==
    /\ pc = "ts"
    /\ \E l \in TsLeftPx, x \in TsStart, b \in TsSpacing :
        ts = TimeScale_new(l, x, b)
    /\ ts_call = [op |-> "new", before |-> ts, arg |-> <<>>, zoomed |-> FALSE, calls |-> 0]
    /\ NoLttb /\ NoAgg /\ NoCandle /\ NoView /\ NoVs
    /\ NoDs /\ NoTicks /\ NoAxes
    /\ panicked = FALSE

CallZoomAt ==
    /\ pc = "ts"
    /\ ts_call.calls < MaxTsCalls
    /\ \E p \in TsCursorPx, f \in TsFactor :
        /\ ts' = TimeScale_zoom_at(ts, p, f)
        /\ ts_call' = [op |-> "zoom_at", before |-> ts, arg |-> <<p, f>>,
                       zoomed |-> TRUE, calls |-> ts_call.calls + 1]
    /\ UNCHANGED <<pc, lttbVars, aggVars, candleVars, viewVars, vsVars, panicked,
                 dsVars, ticksVars, axesVars>>

CallPanPx ==
    /\ pc = "ts"
    /\ ts_call.calls < MaxTsCalls
    /\ \E dx \in TsPanDx :
        /\ ts' = TimeScale_pan_px(ts, dx)
        /\ ts_call' = [op |-> "pan_px", before |-> ts, arg |-> <<dx>>,
                       zoomed |-> ts_call.zoomed, calls |-> ts_call.calls + 1]
    /\ UNCHANGED <<pc, lttbVars, aggVars, candleVars, viewVars, vsVars, panicked,
                 dsVars, ticksVars, axesVars>>

NextTs == CallZoomAt \/ CallPanPx

SpecTs == InitTs /\ [][NextTs]_vars

\* C7: with cx = from_px(p) taken before zoom_at(p, f), to_px(cx) = p after
\* the zoom, also when the new spacing is clamped.
ZoomAnchor ==
    (pc = "ts" /\ ts_call.op = "zoom_at") =>
        LET p == ts_call.arg[1]
            cx == TimeScale_from_px(ts_call.before, p)
        IN  TimeScale_to_px(ts, cx) = p

\* a zoom away from the left edge whose new spacing was clamped to 200
ZoomAnchorWitness ==
    /\ pc = "ts"
    /\ ts_call.op = "zoom_at"
    /\ ts_call.arg[1] # ts.left_px
    /\ QLt(BarSpacingMax, QMul(ts_call.before.bar_spacing, ts_call.arg[2]))
    /\ ts.bar_spacing = BarSpacingMax
    /\ ts.bar_spacing # ts_call.before.bar_spacing
    /\ ts.start_logical # ts_call.before.start_logical

\* C8: bar_spacing >= 0.01 always; pan_px leaves bar_spacing alone; once a
\* zoom_at has run, bar_spacing is within [0.5, 200].
BarSpacingRange ==
    pc = "ts" =>
        /\ QLe(BarSpacingFloor, ts.bar_spacing)
        /\ ts_call.op = "pan_px" => ts.bar_spacing = ts_call.before.bar_spacing
        /\ ts_call.zoomed =>
            QLe(BarSpacingMin, ts.bar_spacing) /\ QLe(ts.bar_spacing, BarSpacingMax)

\* a pan after a zoom that was clamped up to 0.5
BarSpacingRangeWitness ==
    /\ pc = "ts"
    /\ ts_call.op = "pan_px"
    /\ ts_call.zoomed
    /\ ts.bar_spacing = BarSpacingMin
    /\ ts.start_logical # ts_call.before.start_logical

\* logical x positions whose screen position is followed across a pan
TsLogicalX == {I2Q(0), Q(-5, 2), I2Q(40)}

\* C20: pan_px(dx) moves the screen position of every logical x by dx
\* pixels whatever the bar spacing: to_px(x) after the call is to_px(x)
\* before it plus dx, start_logical has decreased by dx / bar_spacing, and
\* left_px and bar_spacing are unchanged.
PanPxShift ==
    (pc = "ts" /\ ts_call.op = "pan_px") =>
        LET b == ts_call.before
            dx == ts_call.arg[1]
        IN  /\ \A x \in TsLogicalX :
                   TimeScale_to_px(ts, x) = QAdd(TimeScale_to_px(b, x), dx)
            /\ ts.start_logical = QSub(b.start_logical, QDiv(dx, b.bar_spacing))
            /\ ts.left_px = b.left_px
            /\ ts.bar_spacing = b.bar_spacing

\* a pan to the left at a spacing of 200 px per unit, set by a clamped zoom
PanPxShiftWitness ==
    /\ pc = "ts"
    /\ ts_call.op = "pan_px"
    /\ ts_call.arg[1] = I2Q(-30)
    /\ ts.bar_spacing = BarSpacingMax
    /\ ts.start_logical = QAdd(ts_call.before.start_logical, Q(30, 200))
    /\ TimeScale_to_px(ts, I2Q(40)) = QSub(TimeScale_to_px(ts_call.before, I2Q(40)), I2Q(30))

-----------------------------------------------------------------------------
(* Specification of a ViewState derived from a chart by from_chart and     *)
(* then driven by pan_by_pixels, zoom_at_pixel and autoscale_y_visible.    *)

ChartLine == <<Series("Line", <<<<0, 0>>, <<4, 50>>, <<10, 20>>>>, <<>>, None)>>
ChartCandles ==
    <<Series("Candlestick", <<>>, CandlesOf(<<<<2, 4, 1, 3>>, <<4, 6, 3, 5>>>>), None)>>
ChartMixed ==
    <<Series("Baseline", <<<<5, 5>>>>, <<>>, Some(-20)),
      Series("Bar", <<>>, CandlesOf(<<<<2, 4, 1, 3>>, <<4, 4, 0, 1>>>>), None)>>
ChartOnePoint == <<Series("Histogram", <<<<3, 7>>>>, <<>>, None)>>
\* two points above each other, and two points at the same height
ChartColumn == <<Series("Line", <<<<2, 1>>, <<2, 9>>>>, <<>>, None)>>
ChartFlat == <<Series("Line", <<<<1, 5>>, <<6, 5>>>>, <<>>, None)>>
\* charts without data: no series, series without points, and a series
\* holding a baseline only
ChartEmpty == <<>>
ChartEmptySeries ==
    <<Series("Line", <<>>, <<>>, None), Series("Candlestick", <<>>, <<>>, None)>>
ChartBaselineOnly == <<Series("Baseline", <<>>, <<>>, Some(3))>>
Charts ==
    {ChartLine, ChartCandles, ChartMixed, ChartOnePoint, ChartColumn, ChartFlat,
     ChartEmpty, ChartEmptySeries, ChartBaselineOnly}

\* window sizes with their insets: a 20 x 10 plot, a plot of width 0, and
\* a window narrower than its horizontal insets
Windows ==
    {[width |-> 24, height |-> 14, insets |-> Insets(2, 2, 2, 2)],
     [width |-> 4, height |-> 14, insets |-> Insets(2, 2, 2, 2)],
     [width |-> 3, height |-> 14, insets |-> Insets(2, 2, 2, 2)]}
\* <<dx, dy>> of a drag
PanDeltas == {<<I2Q(5), I2Q(0)>>, <<I2Q(-3), I2Q(4)>>}
\* wheel deltas; 2 gives a factor below the clamp
Scrolls == {I2Q(0), Q(1, 2), I2Q(-1), I2Q(2)}
\* cursor positions: inside the plot, and outside of it
Cursors == {<<I2Q(7), I2Q(4)>>, <<I2Q(0), I2Q(30)>>}

InitView ==
    /\ pc = "view"
    /\ chart \in Charts
    /\ view = from_chart(chart)
    /\ view_call = [op |-> "from_chart", before |-> view, arg |-> <<>>, calls |-> 0]
    /\ panicked = FALSE
    /\ NoLttb /\ NoAgg /\ NoCandle /\ NoTs /\ NoVs
    /\ NoDs /\ NoTicks /\ NoAxes

CallPanByPixels ==
    /\ pc = "view"
    /\ ~panicked
    /\ view_call.calls < MaxViewCalls
    /\ \E d \in PanDeltas, w \in Windows :
        /\ view' = pan_by_pixels(view, d[1], d[2], w.width, w.height, w.insets)
        /\ view_call' = [op |-> "pan_by_pixels", before |-> view,
                         arg |-> [dx |-> d[1], dy |-> d[2], window |-> w],
                         calls |-> view_call.calls + 1]
    /\ UNCHANGED <<pc, chart, panicked, lttbVars, aggVars, candleVars, tsVars, vsVars,
                 dsVars, ticksVars, axesVars>>

CallZoomAtPixel ==
    /\ pc = "view"
    /\ ~panicked
    /\ view_call.calls < MaxViewCalls
    /\ \E sc \in Scrolls, cur \in Cursors, w \in Windows :
        /\ view_call' = [op |-> "zoom_at_pixel", before |-> view,
                         arg |-> [scroll |-> sc, cursor_x |-> cur[1],
                                  cursor_y |-> cur[2], window |-> w],
                         calls |-> view_call.calls + 1]
        /\ IF zoom_at_pixel_panics(w.width, w.height, w.insets)
           THEN panicked' = TRUE /\ view' = view
           ELSE /\ panicked' = FALSE
                /\ view' = zoom_at_pixel(view, sc, cur[1], cur[2],
                                         w.width, w.height, w.insets)
    /\ UNCHANGED <<pc, chart, lttbVars, aggVars, candleVars, tsVars, vsVars,
                 dsVars, ticksVars, axesVars>>

CallAutoscaleYVisible ==
    /\ pc = "view"
    /\ ~panicked
    /\ view_call.calls < MaxViewCalls
    /\ view' = autoscale_y_visible(view, chart).view
    /\ view_call' = [op |-> "autoscale_y_visible", before |-> view, arg |-> <<>>,
                     ret |-> autoscale_y_visible(view, chart).ret,
                     calls |-> view_call.calls + 1]
    /\ UNCHANGED <<pc, chart, panicked, lttbVars, aggVars, candleVars, tsVars, vsVars,
                 dsVars, ticksVars, axesVars>>

NextView == CallPanByPixels \/ CallZoomAtPixel \/ CallAutoscaleYVisible

SpecView == InitView /\ [][NextView]_vars

\* the plot rectangle of a window, as f64
PlotLeft(w) == I2Q(w.insets.left)
PlotRight(w) == I2Q(w.width - w.insets.right)
PlotTop(w) == I2Q(w.insets.top)
PlotBottom(w) == I2Q(w.height - w.insets.bottom)
\* max(width - left - right, 1) and max(height - top - bottom, 1)
PlotW(w) == QMax(QSub(PlotRight(w), PlotLeft(w)), I2Q(1))
PlotH(w) == QMax(QSub(PlotBottom(w), PlotTop(w)), I2Q(1))

\* the fraction of the span lo..hi at which v lies
Fraction(v, lo, hi) == QDiv(QSub(v, lo), QSub(hi, lo))

\* C9: after zoom_at_pixel, the logical point (wx, wy) that was under the
\* clamped cursor lies at the cursor's horizontal fraction of the new x
\* range and, from the top, at its vertical fraction of the new y range
\* (by the choice of wx and wy, the fractions it had in the old ranges).
ZoomAtPixelAnchor ==
    (pc = "view" /\ view_call.op = "zoom_at_pixel" /\ ~panicked) =>
        LET b == view_call.before
            w == view_call.arg.window
            cx == QClamp(view_call.arg.cursor_x, PlotLeft(w), PlotRight(w))
            cy == QClamp(view_call.arg.cursor_y, PlotTop(w), PlotBottom(w))
            fx == QDiv(QSub(cx, PlotLeft(w)), PlotW(w))
            fy == QDiv(QSub(cy, PlotTop(w)), PlotH(w))
            wx == QAdd(b.x_min, QMul(fx, QSub(b.x_max, b.x_min)))
            wy == QSub(b.y_max, QMul(fy, QSub(b.y_max, b.y_min)))
        IN  /\ Fraction(wx, view.x_min, view.x_max) = fx
            /\ Fraction(wy, view.y_max, view.y_min) = fy

\* C10: pan_by_pixels adds -dx / plot_w * x_span to both x bounds and
\* +dy / plot_h * y_span to both y bounds, with the spans taken before the
\* call and the plot sizes floored at 1; both spans are unchanged.
PanByPixelsShift ==
    (pc = "view" /\ view_call.op = "pan_by_pixels") =>
        LET b == view_call.before
            w == view_call.arg.window
            plot_w == IMax(w.width - w.insets.left - w.insets.right, 1)
            plot_h == IMax(w.height - w.insets.top - w.insets.bottom, 1)
            sx == QDiv(QMul(QNeg(view_call.arg.dx), QSub(b.x_max, b.x_min)), I2Q(plot_w))
            sy == QDiv(QMul(view_call.arg.dy, QSub(b.y_max, b.y_min)), I2Q(plot_h))
        IN  /\ view.x_min = QAdd(b.x_min, sx)
            /\ view.x_max = QAdd(b.x_max, sx)
            /\ view.y_min = QAdd(b.y_min, sy)
            /\ view.y_max = QAdd(b.y_max, sy)
            /\ QSub(view.x_max, view.x_min) = QSub(b.x_max, b.x_min)
            /\ QSub(view.y_max, view.y_min) = QSub(b.y_max, b.y_min)

\* a drag right and down: x bounds fall, y bounds rise
PanByPixelsShiftWitness ==
    /\ pc = "view"
    /\ view_call.op = "pan_by_pixels"
    /\ QLt(I2Q(0), view_call.arg.dy)
    /\ QLt(view_call.arg.dx, I2Q(0))
    /\ QLt(view_call.before.y_min, view.y_min)
    /\ QLt(view_call.before.x_min, view.x_min)

\* C14: pan_by_pixels and zoom_at_pixel never panic, whatever the window
\* size and the insets.
ViewCallsNeverFail ==
    (pc = "view" /\ view_call.op \in {"pan_by_pixels", "zoom_at_pixel"})
        => ~panicked

\* the XY points and the candles the chart's series hold for their type
XYPoints(c) ==
    UNION {{c[i].data_xy[k] : k \in DOMAIN c[i].data_xy} :
               i \in {j \in DOMAIN c : c[j].series_type \in XYTypes}}
OhlcCandles(c) ==
    UNION {{c[i].data_ohlc[k] : k \in DOMAIN c[i].data_ohlc} :
               i \in {j \in DOMAIN c : c[j].series_type \in OhlcTypes}}
\* the baselines of the XY-type series
Baselines(c) ==
    {c[i].baseline[1] :
        i \in {j \in DOMAIN c : c[j].series_type \in XYTypes /\ c[j].baseline # None}}
\* x of every point and t of every candle
DataXs(c) == {p[1] : p \in XYPoints(c)} \cup {cd.t : cd \in OhlcCandles(c)}
\* the values the least y is taken over, and those of the greatest y
DataLows(c) ==
    {p[2] : p \in XYPoints(c)} \cup Baselines(c) \cup {cd.l : cd \in OhlcCandles(c)}
DataHighs(c) ==
    {p[2] : p \in XYPoints(c)} \cup Baselines(c) \cup {cd.h : cd \in OhlcCandles(c)}
Least(S) == CHOOSE m \in S : \A x \in S : m <= x
Greatest(S) == CHOOSE m \in S : \A x \in S : x <= m

\* C17: on a chart with at least one XY point or candle, from_chart returns
\* x_min = least x, x_max = greatest x (least x + 1 when they coincide) and
\* the y range [lo - 0.02 * s, hi + 0.02 * s], with lo and hi the least and
\* greatest of the y values, XY baselines and candle lows/highs, hi replaced
\* by lo + 1 when lo = hi, and s = hi - lo.
FromChartExtents ==
    (pc = "view" /\ view_call.op = "from_chart" /\ DataXs(chart) # {}) =>
        LET xlo == Least(DataXs(chart))
            xhi == Greatest(DataXs(chart))
            lo == Least(DataLows(chart))
            hi0 == Greatest(DataHighs(chart))
            hi == IF lo = hi0 THEN lo + 1 ELSE hi0
            s == hi - lo
        IN  /\ view.x_min = I2Q(xlo)
            /\ view.x_max = I2Q(IF xlo = xhi THEN xlo + 1 ELSE xhi)
            /\ view.y_min = QSub(I2Q(lo), Q(2 * s, 100))
            /\ view.y_max = QAdd(I2Q(hi), Q(2 * s, 100))

\* the chart whose least y is a baseline and whose greatest y is a point
FromChartExtentsWitness ==
    /\ pc = "view"
    /\ view_call.op = "from_chart"
    /\ chart = ChartMixed
    /\ view = ViewState(I2Q(0), I2Q(5), Q(-41, 2), Q(11, 2))

\* C18: from_chart returns the unit view [0, 1] x [0, 1] for a chart without
\* data points: no series, empty series only, or series that contribute
\* only a baseline.
FromChartUnitView ==
    (pc = "view" /\ view_call.op = "from_chart" /\ DataXs(chart) = {}) =>
        view = ViewState(I2Q(0), I2Q(1), I2Q(0), I2Q(1))

\* the chart holding only a baseline: its y extrema are finite
FromChartUnitViewWitness ==
    /\ pc = "view"
    /\ view_call.op = "from_chart"
    /\ Baselines(chart) # {}
    /\ DataXs(chart) = {}
    /\ view = ViewState(I2Q(0), I2Q(1), I2Q(0), I2Q(1))

\* C19: autoscale_y_visible leaves x_min and x_max alone, and when no XY
\* point and no candle lies in [x_min, x_max] it returns false and leaves
\* y_min and y_max alone too.
AutoscaleNoVisible ==
    (pc = "view" /\ view_call.op = "autoscale_y_visible") =>
        LET b == view_call.before
            InRange(x) == QLe(b.x_min, I2Q(x)) /\ QLe(I2Q(x), b.x_max)
        IN  /\ view.x_min = b.x_min
            /\ view.x_max = b.x_max
            /\ (\A x \in DataXs(chart) : ~InRange(x))
                   => (~view_call.ret /\ view = b)

\* a chart with a baseline, points and candles, panned away from all of
\* them before the call
AutoscaleNoVisibleWitness ==
    /\ pc = "view"
    /\ view_call.op = "autoscale_y_visible"
    /\ Baselines(chart) # {}
    /\ DataXs(chart) # {}
    /\ \A x \in DataXs(chart) : QLt(view.x_max, I2Q(x))
    /\ ~view_call.ret
    /\ view = view_call.before

\* C24: every range of a ViewState is non-degenerate after from_chart and
\* any sequence of pan_by_pixels, zoom_at_pixel and autoscale_y_visible
\* calls: x_min < x_max and y_min < y_max.
ViewRangesNonDegenerate ==
    pc = "view" => QLt(view.x_min, view.x_max) /\ QLt(view.y_min, view.y_max)

\* C25: zoom_at_pixel multiplies both spans by f = clamp(1 - scroll, 0.1,
\* 10): a factor within [0.1, 10]; scroll > 0 shrinks both spans and
\* scroll = 0 leaves the view unchanged.
ZoomAtPixelFactor ==
    (pc = "view" /\ view_call.op = "zoom_at_pixel" /\ ~panicked) =>
        LET b == view_call.before
            scroll == view_call.arg.scroll
            f == QClamp(QSub(I2Q(1), scroll), Q(1, 10), I2Q(10))
            xs == QSub(view.x_max, view.x_min)
            ys == QSub(view.y_max, view.y_min)
        IN  /\ xs = QMul(f, QSub(b.x_max, b.x_min))
            /\ ys = QMul(f, QSub(b.y_max, b.y_min))
            /\ QLt(I2Q(0), scroll) =>
                   /\ QLt(xs, QSub(b.x_max, b.x_min))
                   /\ QLt(ys, QSub(b.y_max, b.y_min))
            /\ scroll = I2Q(0) => view = b

\* the XY points and candles with x (t) in [lo, hi]
VisiblePoints(c, lo, hi) ==
    {p \in XYPoints(c) : QLe(lo, I2Q(p[1])) /\ QLe(I2Q(p[1]), hi)}
VisibleCandles(c, lo, hi) ==
    {cd \in OhlcCandles(c) : QLe(lo, I2Q(cd.t)) /\ QLe(I2Q(cd.t), hi)}

\* C26: when autoscale_y_visible returns true the new y range is
\* [lo - 0.02 * (hi - lo), hi + 0.02 * (hi - lo)], with lo and hi the least
\* low and greatest high over the points and candles with x in the current
\* [x_min, x_max] and the baselines of the XY series; every visible value
\* lies in the new range.
AutoscaleVisibleRange ==
    (pc = "view" /\ view_call.op = "autoscale_y_visible" /\ view_call.ret) =>
        LET b == view_call.before
            vp == VisiblePoints(chart, b.x_min, b.x_max)
            vc == VisibleCandles(chart, b.x_min, b.x_max)
            lo == Least({p[2] : p \in vp} \cup Baselines(chart) \cup {cd.l : cd \in vc})
            hi == Greatest({p[2] : p \in vp} \cup Baselines(chart) \cup {cd.h : cd \in vc})
        IN  /\ (vp # {} \/ vc # {})
            /\ view.y_min = QSub(I2Q(lo), Q(2 * (hi - lo), 100))
            /\ view.y_max = QAdd(I2Q(hi), Q(2 * (hi - lo), 100))
            /\ \A p \in vp : QLe(view.y_min, I2Q(p[2])) /\ QLe(I2Q(p[2]), view.y_max)
            /\ \A cd \in vc : QLe(view.y_min, I2Q(cd.l)) /\ QLe(I2Q(cd.h), view.y_max)

\* the line chart panned so that its lowest point has left the window: the
\* range is taken over the two points that remain
AutoscaleVisibleRangeWitness ==
    /\ pc = "view"
    /\ view_call.op = "autoscale_y_visible"
    /\ view_call.ret
    /\ chart = ChartLine
    /\ VisiblePoints(chart, view.x_min, view.x_max) = {<<4, 50>>, <<10, 20>>}
    /\ view.y_min = Q(194, 10)
    /\ view.y_max = Q(506, 10)

-----------------------------------------------------------------------------
(* Specification of a ValueScale built by new_linear or new_log10 and then *)
(* driven by pan_px and zoom_center.                                       *)

\* <<top_px, bottom_px>>: a 10 px column, one of half a pixel, and one
\* whose bottom lies above its top
VsPixels == {<<I2Q(0), I2Q(10)>>, <<I2Q(2), Q(5, 2)>>, <<I2Q(10), I2Q(0)>>}
\* <<vmin, vmax>> of new_linear, with vmin <= vmax
VsLinearRanges == {<<I2Q(0), I2Q(100)>>, <<Q(-5, 2), Q(5, 2)>>, <<I2Q(3), I2Q(3)>>}
\* <<vmin, vmax>> of new_log10: two decades, vmin = 0, vmax = vmin, and a
\* negative vmax above a vmin below 1e-12
VsLogRanges ==
    {<<Pow10(I2Q(0)), Pow10(I2Q(2))>>, <<Zero10, Pow10(I2Q(1))>>,
     <<Pow10(I2Q(1)), Pow10(I2Q(1))>>, <<Pow10(I2Q(-15)), Neg10(I2Q(0))>>}
\* arguments of pan_px and zoom_center
VsPanDy == {I2Q(5), I2Q(-3)}
\* zoom factors: in, out, and the factor 0
VsFactor == {I2Q(2), Q(1, 2), I2Q(0)}
VsLinearCenter == {I2Q(0), I2Q(10)}
VsLogCenter == {Pow10(I2Q(1)), Zero10}

\* both bounds of the scale are finite numbers
VsFinite(s) ==
    IF s.log THEN is_finite(s.log_min) /\ is_finite(s.log_max)
    ELSE is_finite(s.vmin) /\ is_finite(s.vmax)

\* a bound of the scale is NaN
VsNaN(s) ==
    IF s.log THEN is_nan(s.log_min) \/ is_nan(s.log_max)
    ELSE is_nan(s.vmin) \/ is_nan(s.vmax)

\* vs_call.finite: the bounds have been finite since the scale was built.
\* The driver makes no further call on a scale one of whose bounds is NaN.
InitVs ==
    /\ pc = "vs"
    /\ \E px \in VsPixels :
        \/ \E r \in VsLinearRanges :
            /\ vs = ValueScale_new_linear(px[1], px[2], r[1], r[2])
            /\ vs_call = [op |-> "new_linear", before |-> vs, arg |-> r, calls |-> 0,
                           finite |-> VsFinite(vs)]
        \/ \E r \in VsLogRanges :
            /\ vs = ValueScale_new_log10(px[1], px[2], r[1], r[2])
            /\ vs_call = [op |-> "new_log10", before |-> vs, arg |-> r, calls |-> 0,
                           finite |-> VsFinite(vs)]
    /\ NoLttb /\ NoAgg /\ NoCandle /\ NoTs /\ NoView
    /\ NoDs /\ NoTicks /\ NoAxes
    /\ panicked = FALSE

CallVsPanPx ==
    /\ pc = "vs"
    /\ vs_call.calls < MaxVsCalls
    /\ ~VsNaN(vs)
    /\ \E dy \in VsPanDy :
        /\ vs' = ValueScale_pan_px(vs, dy)
        /\ vs_call' = [op |-> "pan_px", before |-> vs, arg |-> <<dy>>,
                       calls |-> vs_call.calls + 1,
                       finite |-> vs_call.finite /\ VsFinite(vs')]
    /\ UNCHANGED <<pc, lttbVars, aggVars, candleVars, tsVars, viewVars, panicked,
                 dsVars, ticksVars, axesVars>>

CallVsZoomCenter ==
    /\ pc = "vs"
    /\ vs_call.calls < MaxVsCalls
    /\ ~VsNaN(vs)
    /\ \E c \in (IF vs.log THEN VsLogCenter ELSE VsLinearCenter), f \in VsFactor :
        /\ vs' = ValueScale_zoom_center(vs, c, f)
        /\ vs_call' = [op |-> "zoom_center", before |-> vs, arg |-> <<c, f>>,
                       calls |-> vs_call.calls + 1,
                       finite |-> vs_call.finite /\ VsFinite(vs')]
    /\ UNCHANGED <<pc, lttbVars, aggVars, candleVars, tsVars, viewVars, panicked,
                 dsVars, ticksVars, axesVars>>

NextVs == CallVsPanPx \/ CallVsZoomCenter

SpecVs == InitVs /\ [][NextVs]_vars

\* pixels between top_px and bottom_px: both ends, the middle and a quarter
PxSamples(s) ==
    IF s.top_px # s.bottom_px
    THEN {QAdd(s.top_px, QMul(f, QSub(s.bottom_px, s.top_px))) :
              f \in {I2Q(0), Q(1, 4), Q(1, 2), I2Q(1)}}
    ELSE {}

VsLinearY == {I2Q(0), Q(7, 2), I2Q(-40)}
VsLogY == {Pow10(I2Q(0)), Pow10(Q(3, 2)), Pow10(I2Q(-11))}

\* C12: after pan_px(dy) on a scale with bottom_px - top_px >= 1, to_px(y)
\* of every value y (y > 1e-12 on a Log10 scale) is its previous pixel plus
\* dy; on a linear scale vmax - vmin is unchanged; on a Log10 scale log_min
\* and log_max have moved by the same amount and vmin = 10^log_min,
\* vmax = 10^log_max.
ValuePanShift ==
    (/\ pc = "vs" /\ vs_call.op = "pan_px"
     /\ QLe(I2Q(1), QSub(vs.bottom_px, vs.top_px))) =>
        LET b == vs_call.before
            dy == vs_call.arg[1]
        IN  /\ \A y \in (IF vs.log THEN VsLogY ELSE VsLinearY) :
                   ValueScale_to_px(vs, y) = QAdd(ValueScale_to_px(b, y), dy)
            /\ ~vs.log => QSub(vs.vmax, vs.vmin) = QSub(b.vmax, b.vmin)
            /\ vs.log =>
                   /\ QSub(vs.log_max, vs.log_min) = QSub(b.log_max, b.log_min)
                   /\ QSub(vs.log_min, b.log_min) = QSub(vs.log_max, b.log_max)
                   /\ vs.log_min = QAdd(b.log_min,
                          QDiv(QMul(QSub(b.log_max, b.log_min), dy),
                               QSub(b.bottom_px, b.top_px)))
                   /\ vs.vmin = powf10(vs.log_min)
                   /\ vs.vmax = powf10(vs.log_max)

\* a < b for two sign/exponent values
Lt10(a, b) ==
    IF is_nan(a.exp10) \/ is_nan(b.exp10) THEN FALSE
    ELSE IF a.sign > 0 /\ b.sign > 0 THEN QLt(a.exp10, b.exp10)
    ELSE IF a.sign < 0 /\ b.sign < 0 THEN QLt(b.exp10, a.exp10)
    ELSE a.sign < b.sign

\* C30: a scale built by new_log10, or by new_linear with vmin <= vmax, has
\* vmin < vmax after every sequence of pan_px and zoom_center calls; a Log10
\* scale has moreover vmin > 0, log_min = log10(vmin), log_max = log10(vmax);
\* new_log10 raises vmin <= 1e-12 to 1e-12 and replaces vmax <= vmin by
\* 10 * vmin.
ValueScaleWellFormed ==
    pc = "vs" =>
        /\ ~vs.log => QLt(vs.vmin, vs.vmax)
        /\ vs.log =>
               /\ Lt10(vs.vmin, vs.vmax)
               /\ Lt10(Zero10, vs.vmin)
               /\ vs.log_min = log10(vs.vmin)
               /\ vs.log_max = log10(vs.vmax)
        /\ vs_call.op = "new_log10" =>
               LET a == vs_call.arg
               IN  /\ vs.vmin = (IF LeEps(a[1]) THEN Pow10(I2Q(EpsExp)) ELSE a[1])
                   /\ vs.vmax = (IF Lt10(vs.vmin, a[2]) THEN a[2]
                                 ELSE Pow10(QAdd(vs.vmin.exp10, I2Q(1))))

-----------------------------------------------------------------------------
(* series.rs: Series::downsample_xy_lttb, and its driver.                  *)

\* the call panics when lttb does
downsample_xy_lttb_panics(self, max_points) ==
    /\ self.series_type \in XYTypes
    /\ Len(self.data_xy) > max_points
    /\ max_points >= 2
    /\ lttb_panics(Len(self.data_xy), max_points)

downsample_xy_lttb(self, max_points) ==
    IF self.series_type \in XYTypes
    THEN LET data_xy == IF Len(self.data_xy) > max_points /\ max_points >= 2
                        THEN lttb(self.data_xy, max_points)
                        ELSE self.data_xy
         IN  Series(self.series_type, data_xy, <<>>, self.baseline)
    ELSE self

\* the longest data_xy / data_ohlc and the largest max_points of the driver
MaxDsLen == 5
MaxDsPoints == 6

\* n points at x = 0, 1, 2, ... with y running through 1, 4, 4, 1, 0
DsPoints(n) == [k \in 1..n |-> <<k - 1, (k * k) % 5>>]
\* n candles at t = 0, 1, 2, ...
DsCandles(n) == [k \in 1..n |-> Candle(k - 1, 2, 4, 1, 3)]

\* the series downsample_xy_lttb is called on: XY series with and without
\* a baseline, and candle / bar series
DsSeries ==
    {Series(ty, DsPoints(n), <<>>, b) :
        ty \in XYTypes, n \in 0..MaxDsLen, b \in {None, Some(1)}}
    \cup {Series(ty, <<>>, DsCandles(n), None) : ty \in OhlcTypes, n \in 0..MaxDsLen}

InitDs ==
    /\ pc = "ds"
    /\ \E sr \in DsSeries, mp \in 0..MaxDsPoints :
        ds = [series |-> sr, max_points |-> mp, out |-> None]
    /\ NoLttb /\ NoAgg /\ NoCandle /\ NoTs /\ NoView /\ NoVs
    /\ NoTicks /\ NoAxes
    /\ panicked = FALSE

CallDownsample ==
    /\ pc = "ds"
    /\ IF downsample_xy_lttb_panics(ds.series, ds.max_points)
       THEN panicked' = TRUE /\ ds' = ds
       ELSE /\ panicked' = panicked
            /\ ds' = [ds EXCEPT !.out = Some(downsample_xy_lttb(ds.series, ds.max_points))]
    /\ pc' = "ds_done"
    /\ UNCHANGED <<lttbVars, aggVars, candleVars, tsVars, viewVars, vsVars,
                   ticksVars, axesVars>>

NextDs == CallDownsample

SpecDs == InitDs /\ [][NextDs]_vars

\* C28: downsample_xy_lttb(max_points) on a Line, Histogram or Baseline
\* series returns a series of the same series_type and baseline with at most
\* max_points XY points, for every max_points >= 0; on a Candlestick or Bar
\* series it returns the series unchanged.
DownsampleAtMost ==
    (pc = "ds_done" /\ ~panicked) =>
        LET self == ds.series
            r == ds.out[1]
        IN  /\ self.series_type \in XYTypes =>
                   /\ Len(r.data_xy) <= ds.max_points
                   /\ r.series_type = self.series_type
                   /\ r.baseline = self.baseline
            /\ self.series_type \in OhlcTypes => r = self

-----------------------------------------------------------------------------
(* chart.rs: nice_ticks and nice_step, and their driver.                   *)

\* f64::floor and f64::ceil; infinities and NaN are returned as they are
QFloor(a) == IF a[2] = 0 THEN a ELSE I2Q(a[1] \div a[2])
QCeil(a) == QNeg(QFloor(QNeg(a)))

\* 10f64.powf(p) for an integer p
Exp10(p) == IF p >= 0 THEN I2Q(10 ^ p) ELSE Q(1, 10 ^ (0 - p))

RECURSIVE Log10FloorFrom(_, _)
\* the integer p with 10^p <= a < 10^(p+1), searched from p downwards when
\* a < 10^p and upwards otherwise
Log10FloorFrom(a, p) ==
    IF QLt(a, Exp10(p)) THEN Log10FloorFrom(a, p - 1)
    ELSE IF QLe(Exp10(p + 1), a) THEN Log10FloorFrom(a, p + 1)
    ELSE p

\* a.log10().floor() for a finite a > 0
log10_floor(a) == Log10FloorFrom(a, 0)

\* faulty variant of nice_step: the 5 of the 1-2-5 scheme is missing
nice_stepNoFive(raw) ==
    LET power == log10_floor(QAbs(raw))
        base == Exp10(power)
        n == QDiv(raw, base)
        nice == IF QLe(n, I2Q(1)) THEN 1 ELSE IF QLe(n, I2Q(2)) THEN 2 ELSE 10
    IN  QMul(I2Q(nice), base)

\* nice_step(raw) for a finite raw > 0, which is all nice_ticks passes
nice_step(raw) ==
    LET power == log10_floor(QAbs(raw))
        base == Exp10(power)
        n == QDiv(raw, base)
        nice == IF QLe(n, I2Q(1)) THEN 1
                ELSE IF QLe(n, I2Q(2)) THEN 2
                ELSE IF QLe(n, I2Q(5)) THEN 5 ELSE 10
    IN  QMul(I2Q(nice), base)

RECURSIVE NiceTicksLoop(_, _, _, _, _)
\* the loop `for _ in 0..(target * 4)` with k iterations left
NiceTicksLoop(v, end, step, k, acc) ==
    IF k = 0 THEN acc
    ELSE IF QLt(QAdd(end, QMul(step, Q(1, 2))), v) THEN acc
    ELSE NiceTicksLoop(QAdd(v, step), end, step, k - 1, Append(acc, v))

\* faulty variant of nice_ticks: a degenerate range yields no tick
nice_ticksNoDegenerate(min, max, target) ==
    IF ~is_finite(min) \/ ~is_finite(max) \/ target < 2 THEN <<>>
    ELSE LET span == QAbs(QSub(max, min))
         IN  IF QLe(span, I2Q(0)) THEN <<>>
             ELSE LET step == nice_step(QDiv(span, I2Q(target)))
                      start == QMul(QCeil(QDiv(min, step)), step)
                      end == QMul(QFloor(QDiv(max, step)), step)
                  IN  NiceTicksLoop(start, end, step, target * 4, <<>>)

nice_ticks(min, max, target) ==
    IF ~is_finite(min) \/ ~is_finite(max) \/ target < 2 THEN <<>>
    ELSE LET span == QAbs(QSub(max, min))
         IN  IF QLe(span, I2Q(0)) THEN <<min>>
             ELSE LET raw_step == QDiv(span, I2Q(target))
                      step == nice_step(raw_step)
                      start == QMul(QCeil(QDiv(min, step)), step)
                      end == QMul(QFloor(QDiv(max, step)), step)
                  IN  NiceTicksLoop(start, end, step, target * 4, <<>>)

\* the largest target of the driver
MaxTarget == 5

\* the ends of the ranges: integers, fractions, a negative end, both
\* infinities and NaN
TickEnds ==
    {I2Q(0), I2Q(1), I2Q(10), I2Q(-3), Q(7, 2), Q(13, 25), Q(47, 50), I2Q(100),
     Infinity, NegInfinity, NaN}

InitTicks ==
    /\ pc = "ticks"
    /\ \E min \in TickEnds, max \in TickEnds, target \in 0..MaxTarget :
        ticks = [min |-> min, max |-> max, target |-> target, out |-> None]
    /\ NoLttb /\ NoAgg /\ NoCandle /\ NoTs /\ NoView /\ NoVs
    /\ NoDs /\ NoAxes
    /\ panicked = FALSE

CallNiceTicks ==
    /\ pc = "ticks"
    /\ ticks' = [ticks EXCEPT !.out = Some(nice_ticks(ticks.min, ticks.max, ticks.target))]
    /\ pc' = "ticks_done"
    /\ UNCHANGED <<lttbVars, aggVars, candleVars, tsVars, viewVars, vsVars,
                   dsVars, axesVars, panicked>>

NextTicks == CallNiceTicks

SpecTicks == InitTicks /\ [][NextTicks]_vars

\* C21 as stated: nice_ticks returns the empty list when min or max is not
\* finite and when min == max.
NiceTicksDegenerateEmpty ==
    (/\ pc = "ticks_done"
     /\ (~is_finite(ticks.min) \/ ~is_finite(ticks.max) \/ ticks.min = ticks.max)) =>
        ticks.out[1] = <<>>

\* C21: nice_ticks returns the empty list when min or max is not finite (and
\* when target < 2); for finite min == max and target >= 2 it returns the
\* single tick [min].
NiceTicksDegenerate ==
    pc = "ticks_done" =>
        /\ (~is_finite(ticks.min) \/ ~is_finite(ticks.max) \/ ticks.target < 2) =>
               ticks.out[1] = <<>>
        /\ (/\ is_finite(ticks.min) /\ ticks.min = ticks.max /\ ticks.target >= 2) =>
               ticks.out[1] = <<ticks.min>>

\* the range [7/2, 7/2] with target 2: one tick at 7/2
NiceTicksDegenerateWitness ==
    /\ pc = "ticks_done"
    /\ ticks.min = Q(7, 2)
    /\ ticks.max = Q(7, 2)
    /\ ticks.target = 2
    /\ ticks.out[1] = <<Q(7, 2)>>

\* the steps 1, 2 and 5 times a power of ten, from 10^-4 to 5 * 10^3
NiceSteps == {QMul(I2Q(m), Exp10(e)) : m \in {1, 2, 5}, e \in -4..3}

\* C27: for finite min < max and target >= 2, nice_ticks returns in
\* ascending order exactly the integer multiples of step within [min, max],
\* with step the smallest of 1, 2, 5 times a power of ten that is
\* >= (max - min) / target; the bound of 4 * target iterations does not cut
\* the list short.
NiceTicksMultiples ==
    (/\ pc = "ticks_done"
     /\ is_finite(ticks.min) /\ is_finite(ticks.max)
     /\ QLt(ticks.min, ticks.max) /\ ticks.target >= 2) =>
        LET r == ticks.out[1]
            raw == QDiv(QSub(ticks.max, ticks.min), I2Q(ticks.target))
            cands == {u \in NiceSteps : QLe(raw, u)}
            step == CHOOSE u \in cands : \A w \in cands : QLe(u, w)
            far == QFloor(QDiv(QMax(QAbs(ticks.min), QAbs(ticks.max)), step))[1] + 1
            mult == {k \in (0 - far)..far :
                        /\ QLe(ticks.min, QMul(I2Q(k), step))
                        /\ QLe(QMul(I2Q(k), step), ticks.max)}
        IN  /\ cands # {}
            /\ Len(r) = Cardinality(mult)
            /\ {r[i] : i \in 1..Len(r)} = {QMul(I2Q(k), step) : k \in mult}
            /\ \A i \in 1..(Len(r) - 1) : QLt(r[i], r[i + 1])
            /\ Len(r) < 4 * ticks.target

\* the range [-3, 10] with target 5: step 5 and the ticks 0, 5, 10
NiceTicksMultiplesWitness ==
    /\ pc = "ticks_done"
    /\ ticks.min = I2Q(-3)
    /\ ticks.max = I2Q(10)
    /\ ticks.target = 5
    /\ ticks.out[1] = <<I2Q(0), I2Q(5), I2Q(10)>>

-----------------------------------------------------------------------------
(* axis.rs: Axis; chart.rs: Chart::new, add_series, autoscale_axes, and    *)
(* their driver.                                                           *)

\* Axis { label, min, max, kind }: the range
Axis(min, max) == [min |-> min, max |-> max]
default_x == Axis(I2Q(0), I2Q(10))
default_y == Axis(I2Q(0), I2Q(100))

\* Chart { series, x_axis, y_axis, overlays }
Chart(series, x_axis, y_axis) ==
    [series |-> series, x_axis |-> x_axis, y_axis |-> y_axis]

\* Chart::new() followed by add_series for every series of ss
Chart_new(ss) == Chart(ss, default_x, default_y)

\* faulty variant of autoscale_axes: the margin is taken off the range
autoscale_axesMarginInward(self, y_margin_frac) ==
    LET e == ScanChart(self.series,
                       ViewState(Infinity, NegInfinity, Infinity, NegInfinity))
        x_max == IF QLtEps(QAbs(QSub(e.x_max, e.x_min)))
                 THEN QAdd(e.x_min, I2Q(1)) ELSE e.x_max
        y_max == IF QLtEps(QAbs(QSub(e.y_max, e.y_min)))
                 THEN QAdd(e.y_min, I2Q(1)) ELSE e.y_max
        m == QMul(QSub(y_max, e.y_min), QMax(y_margin_frac, I2Q(0)))
    IN  IF self.series = <<>> THEN self
        ELSE IF ~is_finite(e.x_min) \/ ~is_finite(e.x_max)
                \/ ~is_finite(e.y_min) \/ ~is_finite(e.y_max)
        THEN self
        ELSE Chart(self.series, Axis(e.x_min, x_max),
                   Axis(QAdd(e.y_min, m), QSub(y_max, m)))

\* the scan of the series is the one of ViewState::from_chart, line for line
autoscale_axes(self, y_margin_frac) ==
    LET e == ScanChart(self.series,
                       ViewState(Infinity, NegInfinity, Infinity, NegInfinity))
        x_max == IF QLtEps(QAbs(QSub(e.x_max, e.x_min)))
                 THEN QAdd(e.x_min, I2Q(1)) ELSE e.x_max
        y_max == IF QLtEps(QAbs(QSub(e.y_max, e.y_min)))
                 THEN QAdd(e.y_min, I2Q(1)) ELSE e.y_max
        span == QSub(y_max, e.y_min)
        m == QMul(span, QMax(y_margin_frac, I2Q(0)))
    IN  IF self.series = <<>> THEN self
        ELSE IF ~is_finite(e.x_min) \/ ~is_finite(e.x_max)
                \/ ~is_finite(e.y_min) \/ ~is_finite(e.y_max)
        THEN self
        ELSE Chart(self.series, Axis(e.x_min, x_max),
                   Axis(QSub(e.y_min, m), QAdd(y_max, m)))

\* the number of autoscale_axes calls of the driver
MaxAxesCalls == 2

\* the chart of tests/autoscale.rs with its prices doubled: a line through
\* (0, 1), (5, 3) and candles at t = 2, 3 with lows 1.5, 2 and highs 6, 5.5
ChartAutoscaleTest ==
    <<Series("Line", <<<<0, 2>>, <<5, 6>>>>, <<>>, None),
      Series("Candlestick", <<>>,
             <<Candle(2, 4, 12, 3, 8), Candle(3, 8, 11, 4, 5)>>, None)>>

AxesCharts == Charts \cup {ChartAutoscaleTest}

\* y_margin_frac: none, 2 %, a half, and a negative one (taken as 0)
Margins == {I2Q(0), Q(2, 100), Q(1, 2), I2Q(-1)}

InitAxes ==
    /\ pc = "axes"
    /\ \E ss \in AxesCharts :
        /\ axes_chart = Chart_new(ss)
        /\ axes_call = [op |-> "new", before |-> axes_chart, arg |-> <<>>, calls |-> 0]
    /\ NoLttb /\ NoAgg /\ NoCandle /\ NoTs /\ NoView /\ NoVs
    /\ NoDs /\ NoTicks
    /\ panicked = FALSE

CallAutoscaleAxes ==
    /\ pc = "axes"
    /\ axes_call.calls < MaxAxesCalls
    /\ \E m \in Margins :
        /\ axes_chart' = autoscale_axes(axes_chart, m)
        /\ axes_call' = [op |-> "autoscale_axes", before |-> axes_chart,
                         arg |-> <<m>>, calls |-> axes_call.calls + 1]
    /\ UNCHANGED <<pc, lttbVars, aggVars, candleVars, tsVars, viewVars, vsVars,
                   dsVars, ticksVars, panicked>>

NextAxes == CallAutoscaleAxes

SpecAxes == InitAxes /\ [][NextAxes]_vars

\* C22: after autoscale_axes(m) with m >= 0 on a chart with at least one XY
\* point or candle, x_axis.min <= every point x and candle t <= x_axis.max,
\* y_axis.min <= every XY y, baseline and candle low, and every XY y,
\* baseline and candle high <= y_axis.max; on a chart without series or
\* without finite extents both axes are unchanged.
AutoscaleAxesContain ==
    (/\ pc = "axes" /\ axes_call.op = "autoscale_axes"
     /\ QLe(I2Q(0), axes_call.arg[1])) =>
        LET c == axes_chart.series
            b == axes_call.before
            x == axes_chart.x_axis
            y == axes_chart.y_axis
        IN  /\ c = b.series
            /\ DataXs(c) # {} =>
                   /\ \A v \in DataXs(c) : QLe(x.min, I2Q(v)) /\ QLe(I2Q(v), x.max)
                   /\ \A v \in DataLows(c) : QLe(y.min, I2Q(v))
                   /\ \A v \in DataHighs(c) : QLe(I2Q(v), y.max)
            /\ DataXs(c) = {} => x = b.x_axis /\ y = b.y_axis

\* the chart of tests/autoscale.rs after autoscale_axes(0.0): x = [0, 5],
\* y = [1, 6] (doubled: [2, 12])
AutoscaleAxesContainWitness ==
    /\ pc = "axes"
    /\ axes_call.op = "autoscale_axes"
    /\ axes_call.arg[1] = I2Q(0)
    /\ axes_chart.series = ChartAutoscaleTest
    /\ axes_call.before.x_axis = default_x
    /\ axes_chart.x_axis = Axis(I2Q(0), I2Q(5))
    /\ axes_chart.y_axis = Axis(I2Q(2), I2Q(12))

-----------------------------------------------------------------------------
(* The whole core: one of the drivers above.                               *)

Init ==
    \/ InitLttb \/ InitAgg \/ InitCandle \/ InitTs \/ InitView \/ InitVs
    \/ InitDs \/ InitTicks \/ InitAxes

Next ==
    \/ NextLttb \/ NextAgg \/ NextCandle \/ NextTs \/ NextView \/ NextVs
    \/ NextDs \/ NextTicks \/ NextAxes

Spec == Init /\ [][Next]_vars

====
